---- MODULE Spec2Model ----
(***************************************************************************)
(* State-machine model of src/main.py: the Redis-backed showcase cache     *)
(* (fetch_showcase, fetch_with_retry), the routes that call it and the     *)
(* Identity V proxy route (get_idv).                                       *)
(*                                                                         *)
(* The program runs on one asyncio event loop: code between two awaits is  *)
(* atomic, so every action below is the code from one await to the next.   *)
(* A "caller" is one request task; pc is the await it is suspended on.     *)
(*                                                                         *)
(* Environment: the upstream clients and the vendor answer each call with  *)
(* any of their outcomes; the redis store may hold a non-JSON value left   *)
(* by another writer when the program starts; redis commands themselves    *)
(* complete without a connection error; the clock only matters through    *)
(* the expiry redis gives a value written with setex.                      *)
(*                                                                         *)
(* Spec is the serving process: requests of every route, callers and the   *)
(* clock. SpecPreload is the start of the process: on_startup, the         *)
(* preloader task and its fetch_showcase calls. SpecLive is fetch_showcase *)
(* under a fair event loop, for the progress property.                     *)
(***************************************************************************)
EXTENDS Integers, Sequences, FiniteSets, TLC

\* ------------------------------------------------------------- bounds
NumCallers == 2          \* request tasks that may be in flight together
MaxCalls == 2            \* requests started in one behaviour
MaxTicks == 1            \* clock advances in one behaviour
MaxCorrupt == 1          \* keys holding a foreign, undecodable value at start

\* ------------------------------------------------------------- configuration
RETRY_COUNT == 2

\* variant: one TTL for every game
CACHE_TTL_Flat == [gi |-> 300, hsr |-> 300, zzz |-> 300]

CACHE_TTL == [gi |-> 300, hsr |-> 300, zzz |-> 900]

Games == DOMAIN CACHE_TTL
GameTags == Games \cup {"xx"}          \* path values of /enka/{game}/{uid}
UIDs == {600000001, 42}
RoleIds == {7}

Callers == 1..NumCallers
NoCaller == 0

\* f"{game}:{uid}" and f"idv:{roleid}": a key is the pair it is formatted from
Key(game, uid) == <<game, uid>>
ShowcaseKeys == {Key(g, u) : g \in Games, u \in UIDs}
IdvKeys == {Key("idv", r) : r \in RoleIds}
Keys == ShowcaseKeys \cup IdvKeys

\* ------------------------------------------------------------- python values
\* A scalar is <<type, text>>; a document is a one-entry dict {k: v}.
NoScalar == <<"-", "-">>
NoDoc == [k |-> NoScalar, v |-> NoScalar]
PlainDoc == [k |-> <<"str", "level">>, v |-> <<"int", "60">>]
DateDoc == [k |-> <<"str", "updated">>, v |-> <<"datetime", "2024-01-01 00:00:00">>]
Payloads == {PlainDoc, DateDoc}        \* what data.model_dump() may hold
IdvBodies == {PlainDoc}                \* what response.json() may hold

\* A redis string value (decode_responses=True), or None.
NoneText == [kind |-> "none", doc |-> NoDoc]
GarbageText == [kind |-> "garbage", doc |-> NoDoc]
JsonText(doc) == [kind |-> "json", doc |-> doc]

\* json.dumps(obj, default=str): dict keys that are numbers become strings,
\* values json cannot encode go through str()
DumpsKey(s) == IF s[1] = "int" THEN <<"str", s[2]>> ELSE s
DumpsValue(s) == IF s[1] \in {"str", "int"} THEN s ELSE <<"str", s[2]>>
Dumps(doc) == JsonText([k |-> DumpsKey(doc.k), v |-> DumpsValue(doc.v)])

\* json.loads(text): the document, or JSONDecodeError
Decodable(text) == text.kind = "json"
Loads(text) == text.doc

\* `if cached_json:` / `if cached:`
Truthy(text) == text.kind # "none"

\* exceptions of the upstream client
NoError == [type |-> "-", msg |-> "-"]
TimeoutError == [type |-> "APIRequestTimeoutError", msg |-> "request timed out"]
ApiError == [type |-> "EnkaAPIError", msg |-> "player does not exist"]
Errors == {TimeoutError, ApiError}
Str(e) == e.msg

\* how a request ended
NoResult == [kind |-> "none", value |-> NoDoc, status |-> 0, detail |-> "-", via |-> "-"]
Value(doc, via) == [kind |-> "value", value |-> doc, status |-> 200, detail |-> "-", via |-> via]
HttpError(status, detail, via) ==
  [kind |-> "http", value |-> NoDoc, status |-> status, detail |-> detail, via |-> via]
Uncaught(type, via) ==
  [kind |-> "exception", value |-> NoDoc, status |-> 500, detail |-> type, via |-> via]

\* json.loads(cached) raised and nothing caught it
CacheDecodeError(via) == Uncaught("JSONDecodeError (cached value)", via)

NoReq == [game |-> "-", uid |-> 0]

\* ------------------------------------------------------------- state
VARIABLES
  redis,        \* redis_client (main.py:66): key -> [present, text, expireAt, writtenAt], expired values included
  now,          \* the clock the store's expiry runs on, in seconds
  ticks,        \* clock advances so far
  calls,        \* requests started so far
  lockHolder,   \* fetch_locks[key] (main.py:72): the caller inside `async with`, or NoCaller
  waiters,      \* fetch_locks[key]: callers queued in acquire(), oldest first
  pc,           \* caller -> the await it is suspended on
  req,          \* caller -> the (game, uid) of its request (main.py:125)
  cached_json,  \* caller -> local cached_json / cached (main.py:130, 139, 212), kept after the return
  attempt,      \* caller -> fetch_with_retry's loop variable (main.py:110)
  last_error,   \* caller -> fetch_with_retry's last_error (main.py:109)
  data_dict,    \* caller -> local data_dict / data (main.py:154, 227)
  outcome,      \* caller -> what the latest upstream attempt of its request produced
  invoked,      \* caller -> upstream calls its request has started (main.py:113, 222)
  result        \* caller -> how its request ended: the value returned or the error raised

vars == <<redis, now, ticks, calls, lockHolder, waiters, pc, req, cached_json,
          attempt, last_error, data_dict, outcome, invoked, result>>

KeyOf(c) == Key(req[c].game, req[c].uid)

NoEntry == [present |-> FALSE, text |-> NoneText, expireAt |-> 0, writtenAt |-> 0]

\* a value some other writer left in the shared store: not JSON
ForeignEntry == [present |-> TRUE, text |-> GarbageText, expireAt |-> 300, writtenAt |-> 0]

Init ==
  /\ redis \in {r \in [Keys -> {NoEntry, ForeignEntry}] :
                  Cardinality({k \in Keys : r[k].present}) <= MaxCorrupt}
  /\ now = 0
  /\ ticks = 0
  /\ calls = 0
  /\ lockHolder = [k \in ShowcaseKeys |-> NoCaller]
  /\ waiters = [k \in ShowcaseKeys |-> <<>>]
  /\ pc = [c \in Callers |-> "idle"]
  /\ req = [c \in Callers |-> NoReq]
  /\ cached_json = [c \in Callers |-> NoneText]
  /\ attempt = [c \in Callers |-> 0]
  /\ last_error = [c \in Callers |-> NoError]
  /\ data_dict = [c \in Callers |-> NoDoc]
  /\ outcome = [c \in Callers |-> NoError]
  /\ invoked = [c \in Callers |-> 0]
  /\ result = [c \in Callers |-> NoResult]

\* ------------------------------------------------------------- redis
\* redis_client.get(key): the values the read may return. A value whose
\* expiry is strictly ahead is returned, one whose expiry has passed is not;
\* at the very instant of expiry the store may answer either way.
RedisGet(k) ==
  IF ~redis[k].present THEN {NoneText}
  ELSE IF now < redis[k].expireAt THEN {redis[k].text}
  ELSE IF now = redis[k].expireAt THEN {redis[k].text, NoneText}
  ELSE {NoneText}

\* variant: the write reaches every key of the game
RedisSetexPerGame(k, ttl, text) ==
  [j \in DOMAIN redis |->
     IF j[1] = k[1]
     THEN [present |-> TRUE, text |-> text, expireAt |-> now + ttl, writtenAt |-> now]
     ELSE redis[j]]

\* redis_client.setex(key, ttl, text)
RedisSetex(k, ttl, text) ==
  [redis EXCEPT ![k] = [present |-> TRUE, text |-> text,
                        expireAt |-> now + ttl, writtenAt |-> now]]

\* ttl = CACHE_TTL.get(game, 300)
Ttl(game) == IF game \in DOMAIN CACHE_TTL THEN CACHE_TTL[game] ELSE 300

\* ttl = 300 of get_idv
IdvTtl == 300

\* ------------------------------------------------------------- the per-key lock
\* variant: one lock shared by all keys
LockOfGlobal(game, uid) == Key("gi", 42)

\* fetch_locks[key]: the lock a (game, uid) request takes
LockOf(game, uid) == Key(game, uid)

LockKey(c) == LockOf(req[c].game, req[c].uid)

\* variant: a lock that never excludes
CanAcquireAlways(k) == TRUE

\* asyncio.Lock.acquire() returns at once iff the lock is free and nobody queues
CanAcquire(k) == lockHolder[k] = NoCaller /\ waiters[k] = <<>>

\* the request of caller c begins: every local is fresh
Begin(c, r, p, res) ==
  /\ pc[c] \in {"idle", "done"}
  /\ calls < MaxCalls
  /\ calls' = calls + 1
  /\ req' = [req EXCEPT ![c] = r]
  /\ pc' = [pc EXCEPT ![c] = p]
  /\ cached_json' = [cached_json EXCEPT ![c] = NoneText]
  /\ attempt' = [attempt EXCEPT ![c] = 0]
  /\ last_error' = [last_error EXCEPT ![c] = NoError]
  /\ data_dict' = [data_dict EXCEPT ![c] = NoDoc]
  /\ outcome' = [outcome EXCEPT ![c] = NoError]
  /\ invoked' = [invoked EXCEPT ![c] = 0]
  /\ result' = [result EXCEPT ![c] = res]

\* the coroutine of caller c ends with res: its locals are gone
Return(c, res) ==
  /\ result' = [result EXCEPT ![c] = res]
  /\ attempt' = [attempt EXCEPT ![c] = 0]
  /\ last_error' = [last_error EXCEPT ![c] = NoError]
  /\ data_dict' = [data_dict EXCEPT ![c] = NoDoc]

\* variant: the lock is released only when a value is returned
LeaveKeepingLockOnError(c, res) ==
  LET k == LockKey(c) IN
  /\ Return(c, res)
  /\ IF res.kind # "value"
     THEN /\ pc' = [pc EXCEPT ![c] = "done"]
          /\ UNCHANGED <<lockHolder, waiters>>
     ELSE IF waiters[k] # <<>>
     THEN /\ lockHolder' = [lockHolder EXCEPT ![k] = Head(waiters[k])]
          /\ waiters' = [waiters EXCEPT ![k] = Tail(waiters[k])]
          /\ pc' = [pc EXCEPT ![c] = "done", ![Head(waiters[k])] = "get2"]
     ELSE /\ lockHolder' = [lockHolder EXCEPT ![k] = NoCaller]
          /\ waiters' = waiters
          /\ pc' = [pc EXCEPT ![c] = "done"]

\* leaving `async with fetch_locks[key]` with result res: release() hands
\* the lock to the oldest waiter, which resumes at the double check
Leave(c, res) ==
  LET k == LockKey(c) IN
  /\ Return(c, res)
  /\ IF waiters[k] # <<>>
     THEN /\ lockHolder' = [lockHolder EXCEPT ![k] = Head(waiters[k])]
          /\ waiters' = [waiters EXCEPT ![k] = Tail(waiters[k])]
          /\ pc' = [pc EXCEPT ![c] = "done", ![Head(waiters[k])] = "get2"]
     ELSE /\ lockHolder' = [lockHolder EXCEPT ![k] = NoCaller]
          /\ waiters' = waiters
          /\ pc' = [pc EXCEPT ![c] = "done"]

\* ------------------------------------------------------------- routes
\* get_gi / get_hsr / get_zzz: return await fetch_showcase(<game>, uid),
\* suspended on the first redis_client.get(key)
GetGi(c, uid) == Begin(c, [game |-> "gi", uid |-> uid], "get1", NoResult)
                 /\ UNCHANGED <<redis, now, ticks, lockHolder, waiters>>

GetHsr(c, uid) == Begin(c, [game |-> "hsr", uid |-> uid], "get1", NoResult)
                  /\ UNCHANGED <<redis, now, ticks, lockHolder, waiters>>

GetZzz(c, uid) == Begin(c, [game |-> "zzz", uid |-> uid], "get1", NoResult)
                  /\ UNCHANGED <<redis, now, ticks, lockHolder, waiters>>

\* variant: an unknown game is reported as not found
UnknownGameNotFound == HttpError(404, "Unknown game", "route")

\* raise HTTPException(status_code=400, detail="Unknown game")
UnknownGame == HttpError(400, "Unknown game", "route")

\* get_enka(game, uid): 400 for a game that is no key of CACHE_TTL, else
\* fetch_showcase(game, uid)
GetEnka(c, game, uid) ==
  /\ IF game \notin DOMAIN CACHE_TTL
     THEN Begin(c, [game |-> game, uid |-> uid], "done", UnknownGame)
     ELSE Begin(c, [game |-> game, uid |-> uid], "get1", NoResult)
  /\ UNCHANGED <<redis, now, ticks, lockHolder, waiters>>

\* get_idv(roleid), suspended on redis_client.get(key)
GetIdv(c, roleid) ==
  /\ Begin(c, [game |-> "idv", uid |-> roleid], "idv_get", NoResult)
  /\ UNCHANGED <<redis, now, ticks, lockHolder, waiters>>

\* ------------------------------------------------------------- fetch_showcase
\* variant: the cache is never served
CacheHitNever(text) == FALSE

\* a cached text that is served: `if cached_json:` and json.loads succeeds
CacheHit(text) == Truthy(text) /\ Decodable(text)

\* variant: a hit is returned at once only while the key's lock is free
FastPathIfFree(k, got) == CacheHit(got) /\ CanAcquire(k)

\* the first read, before `async with fetch_locks[key]`: a hit returns
\* whatever the state of the lock of key k
FastPath(k, got) == CacheHit(got)

\* The first redis_client.get(key) returns: a hit is returned without the
\* lock; otherwise the caller enters `async with fetch_locks[key]`, at once
\* when the lock is free (then suspended on the second get), queued otherwise.
Get1(c) ==
  /\ pc[c] = "get1"
  /\ \E got \in RedisGet(KeyOf(c)) :
       /\ cached_json' = [cached_json EXCEPT ![c] = got]
       /\ IF FastPath(LockKey(c), got)
          THEN /\ Return(c, Value(Loads(got), "fast"))
               /\ pc' = [pc EXCEPT ![c] = "done"]
               /\ UNCHANGED <<lockHolder, waiters>>
          ELSE /\ UNCHANGED <<result, attempt, last_error, data_dict>>
               /\ IF CanAcquire(LockKey(c))
                  THEN /\ lockHolder' = [lockHolder EXCEPT ![LockKey(c)] = c]
                       /\ waiters' = waiters
                       /\ pc' = [pc EXCEPT ![c] = "get2"]
                  ELSE /\ waiters' = [waiters EXCEPT ![LockKey(c)] = Append(@, c)]
                       /\ lockHolder' = lockHolder
                       /\ pc' = [pc EXCEPT ![c] = "wait"]
  /\ UNCHANGED <<redis, now, ticks, calls, req, outcome, invoked>>

\* The double check inside the lock returns: a hit is returned and the lock
\* released; otherwise fetch_with_retry starts its first attempt.
Get2(c) ==
  /\ pc[c] = "get2"
  /\ \E got \in RedisGet(KeyOf(c)) :
       /\ cached_json' = [cached_json EXCEPT ![c] = got]
       /\ IF CacheHit(got)
          THEN /\ Leave(c, Value(Loads(got), "double"))
               /\ invoked' = invoked
          ELSE /\ pc' = [pc EXCEPT ![c] = "fetch"]
               /\ attempt' = [attempt EXCEPT ![c] = 1]
               /\ invoked' = [invoked EXCEPT ![c] = 1]
               /\ UNCHANGED <<result, lockHolder, waiters, last_error, data_dict>>
  /\ UNCHANGED <<redis, now, ticks, calls, req, outcome>>

\* variant: only a timeout is retried
RetryableTimeoutOnly(e) == e = TimeoutError

\* fetch_with_retry: both except clauses record the error and loop on
Retryable(e) == TRUE

\* for attempt in range(1, RETRY_COUNT + 2)
MoreAttempts(n) == n < RETRY_COUNT + 1

\* variant: a failure without a cached value yields an empty document
FallbackEmptyValue(cached, e) ==
  IF Truthy(cached)
  THEN IF Decodable(cached) THEN Value(Loads(cached), "fallback")
       ELSE CacheDecodeError("fallback")
  ELSE Value(NoDoc, "fallback")

\* the except branch of fetch_showcase, with the double check's cached_json
Fallback(cached, e) ==
  IF Truthy(cached)
  THEN IF Decodable(cached) THEN Value(Loads(cached), "fallback")
       ELSE CacheDecodeError("fallback")
  ELSE HttpError(500, Str(e), "error")

\* variant: the first error of the retry loop is the one kept
RaisedFirst(prev, e) == IF prev = NoError THEN e ELSE prev

\* `last_error = e` in both except clauses, then `raise last_error` after
\* the loop: prev is last_error before the failing attempt, e its error
Raised(prev, e) == e

OkMark == [type |-> "ok", msg |-> "-"]

\* One upstream attempt `await client_func(uid)` returns. Success: the
\* document is dumped and the caller suspends on setex. Failure: the error
\* is recorded and the next attempt starts, or, after the last attempt,
\* last_error is raised into the except branch and the lock released.
Attempt(c) ==
  /\ pc[c] = "fetch"
  /\ \/ \E p \in Payloads :
          /\ data_dict' = [data_dict EXCEPT ![c] = p]
          /\ outcome' = [outcome EXCEPT ![c] = OkMark]
          /\ pc' = [pc EXCEPT ![c] = "setex"]
          /\ UNCHANGED <<attempt, last_error, invoked, result, lockHolder, waiters>>
     \/ \E e \in Errors :
          /\ outcome' = [outcome EXCEPT ![c] = e]
          /\ IF Retryable(e) /\ MoreAttempts(attempt[c])
             THEN /\ attempt' = [attempt EXCEPT ![c] = @ + 1]
                  /\ last_error' = [last_error EXCEPT ![c] = e]
                  /\ invoked' = [invoked EXCEPT ![c] = @ + 1]
                  /\ UNCHANGED <<pc, data_dict, result, lockHolder, waiters>>
             ELSE /\ Leave(c, Fallback(cached_json[c], Raised(last_error[c], e)))
                  /\ invoked' = invoked
  /\ UNCHANGED <<redis, now, ticks, calls, req, cached_json>>

\* The store executes redis_client.setex(key, ttl, json.dumps(data_dict,
\* default=str)): the value is visible to every reader from now on, while
\* the caller is still suspended on the await, inside the lock.
SetexStore(c) ==
  /\ pc[c] = "setex"
  /\ redis' = RedisSetex(KeyOf(c), Ttl(req[c].game), Dumps(data_dict[c]))
  /\ pc' = [pc EXCEPT ![c] = "stored"]
  /\ UNCHANGED <<now, ticks, calls, lockHolder, waiters, req, cached_json, attempt,
                 last_error, data_dict, outcome, invoked, result>>

\* `await redis_client.setex(...)` returns: data_dict itself is returned
\* and the lock released
Setex(c) ==
  /\ pc[c] = "stored"
  /\ Leave(c, Value(data_dict[c], "refresh"))
  /\ UNCHANGED <<redis, now, ticks, calls, req, cached_json, outcome, invoked>>

\* ------------------------------------------------------------- get_idv
\* what `await idv_client.get(...)`, raise_for_status() and response.json()
\* may produce
IdvStatuses == {404, 503}
StatusText(st) == IF st = 404 THEN "role not found" ELSE "maintenance"
IdvOutcomes ==
  {[kind |-> "ok", status |-> 200, body |-> b, text |-> "-"] : b \in IdvBodies}
    \cup {[kind |-> "status", status |-> st, body |-> NoDoc, text |-> StatusText(st)] :
            st \in IdvStatuses}
    \cup {[kind |-> "transport", status |-> 0, body |-> NoDoc, text |-> "connection failed"],
          [kind |-> "notjson", status |-> 200, body |-> NoDoc, text |-> "<html>"]}

\* variant: every vendor failure is reported as a plain 500
IdvErrorMasked(o) ==
  IF o.kind \in {"status", "transport"}
  THEN HttpError(500, "Request error: connection failed", "error")
  ELSE Uncaught("JSONDecodeError (vendor body)", "error")

\* the except clauses of get_idv: HTTPStatusError carries the vendor's
\* status and body, RequestError becomes a 500, a body that is no JSON
\* raises in response.json() and is not caught
IdvError(o) ==
  IF o.kind = "status" THEN HttpError(o.status, o.text, "error")
  ELSE IF o.kind = "transport"
       THEN HttpError(500, "Request error: connection failed", "error")
       ELSE Uncaught("JSONDecodeError (vendor body)", "error")

\* redis_client.get(key) returns: a truthy value goes through json.loads
\* (outside any try), otherwise the caller suspends on the vendor call
IdvGet(c) ==
  /\ pc[c] = "idv_get"
  /\ \E got \in RedisGet(KeyOf(c)) :
       /\ cached_json' = [cached_json EXCEPT ![c] = got]
       /\ IF Truthy(got)
          THEN /\ pc' = [pc EXCEPT ![c] = "done"]
               /\ Return(c, IF Decodable(got) THEN Value(Loads(got), "fast")
                            ELSE CacheDecodeError("fast"))
               /\ invoked' = invoked
          ELSE /\ pc' = [pc EXCEPT ![c] = "idv_http"]
               /\ invoked' = [invoked EXCEPT ![c] = 1]
               /\ UNCHANGED <<result, attempt, last_error, data_dict>>
  /\ UNCHANGED <<redis, now, ticks, calls, lockHolder, waiters, req, outcome>>

\* the vendor call returns: the body is kept for setex; an HTTPStatusError
\* or a RequestError becomes an HTTPException, anything else is not caught
IdvHttp(c) ==
  /\ pc[c] = "idv_http"
  /\ \E o \in IdvOutcomes :
       /\ outcome' = [outcome EXCEPT ![c] = [type |-> o.kind, msg |-> o.text]]
       /\ IF o.kind = "ok"
          THEN /\ data_dict' = [data_dict EXCEPT ![c] = o.body]
               /\ pc' = [pc EXCEPT ![c] = "idv_setex"]
               /\ UNCHANGED <<result, attempt, last_error>>
          ELSE /\ pc' = [pc EXCEPT ![c] = "done"]
               /\ Return(c, IdvError(o))
  /\ UNCHANGED <<redis, now, ticks, calls, lockHolder, waiters, req, cached_json, invoked>>

\* the store executes redis_client.setex(key, ttl, json.dumps(data, default=str))
IdvSetexStore(c) ==
  /\ pc[c] = "idv_setex"
  /\ redis' = RedisSetex(KeyOf(c), IdvTtl, Dumps(data_dict[c]))
  /\ pc' = [pc EXCEPT ![c] = "idv_stored"]
  /\ UNCHANGED <<now, ticks, calls, lockHolder, waiters, req, cached_json, attempt,
                 last_error, data_dict, outcome, invoked, result>>

\* `await redis_client.setex(...)` returns: data is returned
IdvSetex(c) ==
  /\ pc[c] = "idv_stored"
  /\ pc' = [pc EXCEPT ![c] = "done"]
  /\ Return(c, Value(data_dict[c], "refresh"))
  /\ UNCHANGED <<redis, now, ticks, calls, lockHolder, waiters, req, cached_json,
                 outcome, invoked>>

\* ------------------------------------------------------------- environment
\* The program reads no clock of its own: time matters only through the
\* expiry of stored values. The clock jumps to the second before, the
\* second of, or the second after the expiry of a value the program stored.
Instants == UNION {{redis[k].expireAt - 1, redis[k].expireAt, redis[k].expireAt + 1} :
                     k \in {j \in Keys : redis[j].present /\ Decodable(redis[j].text)}}

Tick ==
  /\ ticks < MaxTicks
  /\ \E t \in Instants : t > now /\ now' = t
  /\ ticks' = ticks + 1
  /\ UNCHANGED <<redis, calls, lockHolder, waiters, pc, req, cached_json, attempt,
                 last_error, data_dict, outcome, invoked, result>>

Next ==
  \/ \E c \in Callers, uid \in UIDs : GetGi(c, uid)
  \/ \E c \in Callers, uid \in UIDs : GetHsr(c, uid)
  \/ \E c \in Callers, uid \in UIDs : GetZzz(c, uid)
  \/ \E c \in Callers, game \in GameTags, uid \in UIDs : GetEnka(c, game, uid)
  \/ \E c \in Callers, roleid \in RoleIds : GetIdv(c, roleid)
  \/ \E c \in Callers : Get1(c)
  \/ \E c \in Callers : Get2(c)
  \/ \E c \in Callers : Attempt(c)
  \/ \E c \in Callers : SetexStore(c)
  \/ \E c \in Callers : Setex(c)
  \/ \E c \in Callers : IdvGet(c)
  \/ \E c \in Callers : IdvHttp(c)
  \/ \E c \in Callers : IdvSetexStore(c)
  \/ \E c \in Callers : IdvSetex(c)
  \/ Tick

Spec == Init /\ [][Next]_vars

\* ============================================================= properties
IsShowcase(c) == req[c].game \in Games
InLock == {"get2", "fetch", "setex", "stored"}

\* C1: for every showcase key at most one caller is inside the upstream
\* fetch (or the write that follows it); every other caller of that key is
\* idle, finished, reading the cache on the fast path or queued on the lock.
C1_OneFetchPerKey ==
  \A c \in Callers, d \in Callers :
    (c # d /\ IsShowcase(c) /\ IsShowcase(d) /\ KeyOf(c) = KeyOf(d)
       /\ pc[c] \in {"fetch", "setex", "stored"})
    => pc[d] \in {"idle", "done", "get1", "wait"}

\* C1 witness: one caller fetches upstream while another of the same key waits
C1_Witness ==
  \E c \in Callers, d \in Callers :
    c # d /\ KeyOf(c) = KeyOf(d) /\ pc[c] = "fetch" /\ pc[d] = "wait"

RECURSIVE SumInvoked(_)
SumInvoked(S) ==
  IF S = {} THEN 0
  ELSE LET c == CHOOSE x \in S : TRUE IN invoked[c] + SumInvoked(S \ {c})

\* the requests of all callers ran together on key k, absent from the
\* cache, with an upstream that succeeded at once: nobody was served by the
\* fast path, no time passed, whoever fetched found no entry and needed one
\* attempt
C2_Scenario(k) ==
  /\ ticks = 0
  /\ \A c \in Callers :
       /\ KeyOf(c) = k
       /\ pc[c] = "done"
       /\ result[c].kind = "value"
       /\ result[c].via \in {"refresh", "double"}
       /\ result[c].via = "refresh" => cached_json[c] = NoneText /\ invoked[c] = 1

\* C2 (as claimed): N concurrent requests of one uncached key with a
\* succeeding upstream invoke the upstream client once in total and all
\* return the same value.
C2_OneFetchSameValue ==
  \A k \in ShowcaseKeys :
    C2_Scenario(k) =>
      /\ SumInvoked(Callers) = 1
      /\ \A c \in Callers, d \in Callers : result[c].value = result[d].value

\* the half of C2 that the code keeps: one upstream invocation in total
C2_OneFetch ==
  \A k \in ShowcaseKeys : C2_Scenario(k) => SumInvoked(Callers) = 1

\* the read of caller c from the showcase cache returns in this step
ReadStep(c) == IsShowcase(c) /\ pc[c] \in {"get1", "get2"} /\ pc'[c] # pc[c]

Fresh(k) == redis[k].present /\ Decodable(redis[k].text) /\ now < redis[k].expireAt

\* C3: a read of fetch_showcase that finds a fresh, decodable entry ends
\* the request with that entry's value, and the request has invoked the
\* upstream client zero times.
C3_FreshHitNoUpstream ==
  [][\A c \in Callers :
       (ReadStep(c) /\ Fresh(KeyOf(c)))
       => /\ pc'[c] = "done"
          /\ result'[c].kind = "value"
          /\ result'[c].value = Loads(redis[KeyOf(c)].text)
          /\ invoked'[c] = 0]_vars

\* C3 witness: a request served from a fresh entry by the double check
C3_Witness ==
  \E c \in Callers :
    /\ IsShowcase(c) /\ pc[c] = "done" /\ result[c].via = "double"
    /\ Fresh(KeyOf(c)) /\ result[c].value = Loads(redis[KeyOf(c)].text)

\* C4 (as claimed): when the upstream fails on all attempts and a value
\* cached earlier for the key has outlived its TTL, the request returns
\* that stale value.
C4_StaleOnFailure ==
  [][\A c \in Callers :
       (IsShowcase(c) /\ pc[c] = "fetch" /\ pc'[c] = "done"
          /\ redis[KeyOf(c)].present /\ Decodable(redis[KeyOf(c)].text)
          /\ now > redis[KeyOf(c)].expireAt)
       => /\ result'[c].kind = "value"
          /\ result'[c].value = Loads(redis[KeyOf(c)].text)]_vars

\* C5: a request whose upstream attempts all failed and whose double check
\* found no entry ends in HTTP 500 and returns no value.
C5_NoEntryFailureIs500 ==
  \A c \in Callers :
    (IsShowcase(c) /\ pc[c] = "done" /\ outcome[c] \in Errors
       /\ cached_json[c] = NoneText)
    => result[c].kind = "http" /\ result[c].status = 500 /\ result[c].value = NoDoc

\* C5 witness: such a request, ended
C5_Witness ==
  \E c \in Callers :
    /\ IsShowcase(c) /\ pc[c] = "done" /\ outcome[c] \in Errors
    /\ cached_json[c] = NoneText /\ invoked[c] = 3 /\ result[c].status = 500

\* C6: a request makes at most 3 upstream attempts; a further attempt is
\* made only after a failure (the first success ends the loop); a failure
\* of either kind before the third attempt is retried, so a request that
\* ends on a failure has made exactly 3 attempts.
C6_RetryPolicy ==
  \A c \in Callers :
    IsShowcase(c) =>
      /\ invoked[c] <= 3
      /\ (pc[c] = "fetch" /\ invoked[c] > 1) => outcome[c] \in Errors
      /\ pc[c] \in {"setex", "stored"} => outcome[c] = OkMark
      /\ (pc[c] = "done" /\ result[c].via = "refresh") => outcome[c] = OkMark
      /\ (pc[c] = "done" /\ outcome[c] \in Errors) => invoked[c] = 3

\* C6 witness: attempts 1 and 2 failed, the second not by a timeout, and
\* attempt 3 succeeded
C6_Witness ==
  \E c \in Callers :
    pc[c] = "setex" /\ invoked[c] = 3 /\ last_error[c] = ApiError /\ outcome[c] = OkMark

\* C7: a caller queues on a lock only behind a holder of its own key, so a
\* holder of another key never blocks it.
C7_OnlySameKeyBlocks ==
  \A c \in Callers :
    pc[c] = "wait" =>
      \E d \in Callers : d # c /\ KeyOf(d) = KeyOf(c) /\ pc[d] \in InLock

\* C7 witness: two callers of different keys are inside their upstream
\* fetches together
C7_Witness ==
  \E c \in Callers, d \in Callers :
    KeyOf(c) # KeyOf(d) /\ pc[c] = "fetch" /\ pc[d] = "fetch"

\* C8 (as claimed): no request ends with the decode error of a cached value.
C8_DecodeErrorNeverSurfaces ==
  \A c \in Callers :
    pc[c] = "done" => result[c].detail # CacheDecodeError("fast").detail

\* the TTLs the keyspaces are to have
ClaimedTtl(tag) ==
  CASE tag = "gi" -> 300 [] tag = "hsr" -> 300 [] tag = "zzz" -> 900 [] tag = "idv" -> 300

\* the read of caller c from the cache, showcase or idv, returns in this step
AnyReadStep(c) == pc[c] \in {"get1", "get2", "idv_get"} /\ pc'[c] # pc[c]

\* C9: every write stores the entry with the TTL of its keyspace (gi 300,
\* hsr 300, zzz 900, idv 300); a read before writtenAt + TTL is served the
\* entry, a read after writtenAt + TTL is not served and goes on to refetch.
C9_TtlPolicy ==
  [][/\ \A k \in Keys :
          redis'[k] # redis[k] =>
            /\ redis'[k].writtenAt = now
            /\ redis'[k].expireAt = now + ClaimedTtl(k[1])
     /\ \A c \in Callers :
          LET e == redis[KeyOf(c)] IN
          (AnyReadStep(c) /\ e.present /\ Decodable(e.text)) =>
            /\ now < e.writtenAt + ClaimedTtl(req[c].game) =>
                 pc'[c] = "done" /\ result'[c].value = Loads(e.text)
            /\ now > e.writtenAt + ClaimedTtl(req[c].game) =>
                 pc'[c] \in {"get2", "wait", "fetch", "idv_http"}]_vars

\* C9 witness: a gi entry written at t=0 is past its TTL at t=301 and a
\* request of its key is refetching upstream
C9_Witness ==
  \E c \in Callers :
    /\ req[c].game = "gi" /\ pc[c] = "fetch"
    /\ redis[KeyOf(c)].present /\ Decodable(redis[KeyOf(c)].text)
    /\ redis[KeyOf(c)].writtenAt = 0 /\ now = 301

\* the classification of a player identifier by its digits
RECURSIVE NumDigits(_)
NumDigits(n) == IF n < 10 THEN 1 ELSE 1 + NumDigits(n \div 10)

RECURSIVE LeadingDigit(_)
LeadingDigit(n) == IF n < 10 THEN n ELSE LeadingDigit(n \div 10)

Classify(uid) ==
  IF NumDigits(uid) # 9 THEN "unknown"
  ELSE IF LeadingDigit(uid) = 6 THEN "hsr"
  ELSE IF LeadingDigit(uid) = 1 THEN "zzz"
  ELSE "gi"

\* C10 (as claimed): the unified enka route fetches a 9-digit identifier
\* from the keyspace its leading digit selects and answers 400, without a
\* fetch, for an identifier of another length.
C10_UnifiedRouteClassifies ==
  [][\A c \in Callers, game \in GameTags, uid \in UIDs :
       GetEnka(c, game, uid) =>
         IF Classify(uid) = "unknown"
         THEN pc'[c] = "done" /\ result'[c].kind = "http" /\ result'[c].status = 400
         ELSE pc'[c] = "get1" /\ req'[c].game = Classify(uid)]_vars

\* C11 (as claimed): when a refresh returns, the value any reader decodes
\* from the entry the refresh stored equals the value the refresh returns.
C11_CacheRoundTrip ==
  [][\A c \in Callers :
       (IsShowcase(c) /\ pc[c] = "stored" /\ pc'[c] = "done")
       => Loads(redis[KeyOf(c)].text) = result'[c].value]_vars

IsIdv(c) == req[c].game = "idv"

\* C12 (as claimed): for every idv key at most one vendor call is in
\* flight; a second request of the key is not in its own vendor call.
C12_IdvOneVendorCall ==
  \A c \in Callers, d \in Callers :
    (c # d /\ IsIdv(c) /\ IsIdv(d) /\ KeyOf(c) = KeyOf(d) /\ pc[c] = "idv_http")
    => pc[d] # "idv_http"

\* C13: a vendor call that ends in a status >= 400 ends the request with
\* an HTTP error of that status whose detail is the vendor's body; one that
\* ends in a transport failure ends it with an HTTP 500 that is none of the
\* status errors; in both cases the step writes nothing to the store.
C13_VendorFailureReported ==
  [][\A c \in Callers :
       (IsIdv(c) /\ pc[c] = "idv_http" /\ pc'[c] # pc[c]
          /\ outcome'[c].type \in {"status", "transport"})
       => /\ pc'[c] = "done"
          /\ result'[c].kind = "http"
          /\ redis' = redis
          /\ outcome'[c].type = "status" =>
               \E st \in IdvStatuses :
                 /\ st >= 400
                 /\ outcome'[c].msg = StatusText(st)
                 /\ result'[c].status = st
                 /\ result'[c].detail = StatusText(st)
          /\ outcome'[c].type = "transport" =>
               /\ result'[c].status = 500
               /\ \A st \in IdvStatuses : result'[c].detail # StatusText(st)]_vars

\* C13 witness: a request ended by the vendor's 503 with nothing cached
\* for its key, and another ended by a transport failure
C13_Witness ==
  \E c \in Callers, d \in Callers :
    /\ IsIdv(c) /\ pc[c] = "done" /\ outcome[c].type = "status"
    /\ result[c].status = 503 /\ result[c].detail = StatusText(503)
    /\ IsIdv(d) /\ pc[d] = "done" /\ outcome[d].type = "transport"
    /\ result[d].status = 500
    /\ ~redis[KeyOf(c)].present

\* C15: get_enka with a game tag outside gi, hsr, zzz ends at once in HTTP
\* 400: the request is never suspended on a cache read, the store and every
\* lock are left as they were and no upstream call is started.
C15_UnknownGameRejected ==
  [][\A c \in Callers, game \in GameTags \ {"gi", "hsr", "zzz"}, uid \in UIDs :
       GetEnka(c, game, uid) =>
         /\ pc'[c] = "done"
         /\ result'[c].kind = "http" /\ result'[c].status = 400
         /\ cached_json'[c] = NoneText
         /\ redis' = redis /\ lockHolder' = lockHolder /\ waiters' = waiters
         /\ invoked'[c] = 0]_vars

\* C15 witness: a request for game "xx" ended in 400 while another request
\* holds a lock in its upstream fetch
C15_Witness ==
  \E c \in Callers, d \in Callers :
    /\ req[c].game = "xx" /\ pc[c] = "done" /\ result[c].status = 400
    /\ invoked[c] = 0 /\ pc[d] = "fetch"

\* C16: a first read of fetch_showcase that finds a fresh entry ends the
\* request at once, whoever holds the key's lock: the caller neither takes
\* the lock nor joins its queue.
C16_FastPathNoLock ==
  [][\A c \in Callers :
       (IsShowcase(c) /\ pc[c] = "get1" /\ pc'[c] # pc[c] /\ Fresh(KeyOf(c)))
       => /\ pc'[c] = "done"
          /\ result'[c].via = "fast"
          /\ lockHolder' = lockHolder
          /\ waiters' = waiters]_vars

\* C16 witness: a request served by the fast path while another caller of
\* the key is still inside the lock, suspended on its setex
C16_Witness ==
  \E c \in Callers, d \in Callers :
    /\ c # d /\ KeyOf(c) = KeyOf(d) /\ IsShowcase(c)
    /\ pc[c] = "done" /\ result[c].via = "fast"
    /\ pc[d] = "stored" /\ lockHolder[LockKey(d)] = d

PRELOAD_UIDS == << [game |-> "gi", uid |-> 800000000],
                   [game |-> "hsr", uid |-> 600000000],
                   [game |-> "zzz", uid |-> 100000000] >>

\* the coroutines of the start of the process: one fetch_showcase task per
\* pair (made by asyncio.gather), the preload_showcases task (made by
\* asyncio.create_task) and on_startup itself
Tasks == 1..Len(PRELOAD_UIDS)
Preloader == Len(PRELOAD_UIDS) + 1
OnStartup == Len(PRELOAD_UIDS) + 2

PreloadKeys == {Key(PRELOAD_UIDS[i].game, PRELOAD_UIDS[i].uid) : i \in Tasks}

\* the awaits of on_startup, in order
StartupAwaits == <<"aenter_gi", "aenter_hsr", "aenter_zzz", "ping">>

\* the process starts: on_startup is suspended on its first await, nothing
\* else exists yet
InitPreload ==
  /\ redis \in {r \in [PreloadKeys -> {NoEntry, ForeignEntry}] :
                  Cardinality({k \in PreloadKeys : r[k].present}) <= MaxCorrupt}
  /\ now = 0
  /\ ticks = 0
  /\ calls = 0
  /\ lockHolder = [k \in PreloadKeys |-> NoCaller]
  /\ waiters = [k \in PreloadKeys |-> <<>>]
  /\ pc = [i \in 1..OnStartup |-> IF i = OnStartup THEN StartupAwaits[1] ELSE "idle"]
  /\ req = [i \in Tasks |-> NoReq]
  /\ cached_json = [i \in Tasks |-> NoneText]
  /\ attempt = [i \in Tasks |-> 0]
  /\ last_error = [i \in Tasks |-> NoError]
  /\ data_dict = [i \in Tasks |-> NoDoc]
  /\ outcome = [i \in Tasks |-> NoError]
  /\ invoked = [i \in Tasks |-> 0]
  /\ result = [i \in Tasks |-> NoResult]

\* on_startup: `await <client>.__aenter__()` returns, the next await begins
OnStartupAenter ==
  /\ \E n \in 1..(Len(StartupAwaits) - 1) :
       /\ pc[OnStartup] = StartupAwaits[n]
       /\ pc' = [pc EXCEPT ![OnStartup] = StartupAwaits[n + 1]]
  /\ UNCHANGED <<redis, now, ticks, calls, lockHolder, waiters, req, cached_json,
                 attempt, last_error, data_dict, outcome, invoked, result>>

\* on_startup: `await redis_client.ping()` returns or raises (either way
\* only a line is printed), asyncio.create_task(preload_showcases(...))
\* schedules the preloader and on_startup returns without awaiting it
OnStartupPing ==
  /\ pc[OnStartup] = "ping"
  /\ pc' = [pc EXCEPT ![OnStartup] = "ready", ![Preloader] = "scheduled"]
  /\ UNCHANGED <<redis, now, ticks, calls, lockHolder, waiters, req, cached_json,
                 attempt, last_error, data_dict, outcome, invoked, result>>

\* preload_showcases runs for the first time: asyncio.gather makes one
\* fetch_showcase task per pair, each runs to its first redis_client.get,
\* and the preloader is suspended on the gather
PreloadShowcases ==
  /\ pc[Preloader] = "scheduled"
  /\ pc' = [i \in DOMAIN pc |-> IF i \in Tasks THEN "get1"
                                ELSE IF i = Preloader THEN "gather" ELSE pc[i]]
  /\ req' = [i \in Tasks |-> PRELOAD_UIDS[i]]
  /\ UNCHANGED <<redis, now, ticks, calls, lockHolder, waiters, cached_json,
                 attempt, last_error, data_dict, outcome, invoked, result>>

\* variant: return_exceptions=False, the gather raises a child's exception
GatherRaisesFailure(res) == res.kind # "value"

\* asyncio.gather(*tasks, return_exceptions=True): a child's exception is
\* an element of the result list and is never raised into the awaiter
GatherRaises(res) == FALSE

\* the gather wakes the preloader: with the list of results once every
\* child has ended (one line is printed per pair and the preloader
\* returns), or with an exception as soon as a child's result is raised
PreloadGather ==
  /\ pc[Preloader] = "gather"
  /\ IF \E i \in Tasks : pc[i] = "done" /\ GatherRaises(result[i])
     THEN pc' = [pc EXCEPT ![Preloader] = "raised"]
     ELSE /\ \A i \in Tasks : pc[i] = "done"
          /\ pc' = [pc EXCEPT ![Preloader] = "done"]
  /\ UNCHANGED <<redis, now, ticks, calls, lockHolder, waiters, req, cached_json,
                 attempt, last_error, data_dict, outcome, invoked, result>>

NextPreload ==
  \/ OnStartupAenter
  \/ OnStartupPing
  \/ PreloadShowcases
  \/ \E i \in Tasks : Get1(i)
  \/ \E i \in Tasks : Get2(i)
  \/ \E i \in Tasks : Attempt(i)
  \/ \E i \in Tasks : SetexStore(i)
  \/ \E i \in Tasks : Setex(i)
  \/ PreloadGather

SpecPreload == InitPreload /\ [][NextPreload]_vars

Failed(res) == res.kind \in {"http", "exception"}

\* C14: once the preloader has run, every pair of PRELOAD_UIDS has its own
\* fetch_showcase call, started together with the others; the step in which
\* one pair's call fails changes no other call and leaves the preloader
\* waiting; the preloader never ends with an exception raised, and ends only
\* after every call has; on_startup has returned before the preloader first
\* runs, so it never waits for the preload.
C14_PreloadIsolatedAndDetached ==
  [][/\ \A i \in Tasks :
          (pc[i] # "done" /\ pc'[i] = "done" /\ Failed(result'[i]))
          => /\ \A j \in Tasks \ {i} : pc'[j] = pc[j] /\ result'[j] = result[j]
             /\ pc'[Preloader] = "gather"
     /\ pc'[Preloader] # "raised"
     /\ pc'[Preloader] = "done" => \A i \in Tasks : pc'[i] = "done"
     /\ pc'[Preloader] \in {"gather", "done"} =>
          \A i \in Tasks : pc'[i] # "idle" /\ req'[i] = PRELOAD_UIDS[i]
     /\ (pc[Preloader] = "scheduled" /\ pc'[Preloader] = "gather") =>
          \A i \in Tasks : pc'[i] = "get1"
     /\ pc'[Preloader] # "idle" => pc'[OnStartup] = "ready"]_vars

\* C14 witness: startup has returned, the preloader has ended normally, the
\* first pair failed on its third attempt and the two other pairs were
\* fetched and are cached
C14_Witness ==
  /\ pc[OnStartup] = "ready" /\ pc[Preloader] = "done"
  /\ Failed(result[1]) /\ invoked[1] = 3
  /\ \A i \in {2, 3} :
       /\ result[i].via = "refresh"
       /\ redis[KeyOf(i)].present /\ redis[KeyOf(i)].text = Dumps(result[i].value)

\* ============================================================= progress
\* the await caller c is suspended on returns
Resume(c) == Get1(c) \/ Get2(c) \/ Attempt(c) \/ SetexStore(c) \/ Setex(c)

\* requests of the gi showcase, the clock, and every await of fetch_showcase
NextLive ==
  \/ \E c \in Callers, uid \in UIDs : GetGi(c, uid)
  \/ \E c \in Callers : Resume(c)
  \/ Tick

\* Every pending redis command and upstream attempt returns (the upstream
\* call by its own timeout at the latest), and the event loop runs every
\* task whose await has returned: a caller that can resume does resume.
SpecLive == Init /\ [][NextLive]_vars /\ \A c \in Callers : WF_vars(Resume(c))

\* C17: every fetch_showcase call in progress eventually ends with a value
\* or an error, and every caller queued on a lock eventually holds it.
C17_EveryCallCompletes ==
  \A c \in Callers :
    /\ (pc[c] \in {"get1", "wait", "get2", "fetch", "setex", "stored"}) ~> (pc[c] = "done")
    /\ (pc[c] = "wait") ~> (IsShowcase(c) /\ lockHolder[LockKey(c)] = c)

\* C17 witness: with no time passed, one caller left the lock of a key
\* through the error exit and another caller of the key, which can only
\* have entered the lock after it, fetched, stored and ended
C17_Witness ==
  \E c \in Callers, d \in Callers :
    /\ c # d /\ KeyOf(c) = KeyOf(d) /\ ticks = 0
    /\ pc[d] = "done" /\ result[d].via = "error"
    /\ pc[c] = "done" /\ result[c].via = "refresh"
    /\ lockHolder[LockKey(c)] = NoCaller

====
